---- MODULE Spec2Model ----
(***************************************************************************)
(* A model of api-get.py: the endpoint normaliser (extract_endpoints), the *)
(* method filter (parse_methods), the probe selector / executor /          *)
(* aggregator (request_all_endpoints, request_endpoint) and the control    *)
(* flow of main, with its exits and its two output files.                  *)
(*                                                                         *)
(* Python strings are sequences of one-character strings, so that strip,   *)
(* upper, split and rstrip are computed and not assumed.  A Python dict is *)
(* a function on its keys (a record); a key that was never assigned is     *)
(* not in its DOMAIN.  An optional value (None or a value) is a sequence   *)
(* of length 0 or 1.  Lists of dicts share their dicts (Python aliasing):  *)
(* the dicts live in objs and the lists hold indexes into objs.            *)
(***************************************************************************)
EXTENDS Integers, Sequences, FiniteSets, TLC

VARIABLES
    pc,                   \* where main is
    args,                 \* the parsed command line (argparse namespace)
    fetch_result,         \* what the network answered to fetch_api_docs
    api_docs,             \* the decoded document (optional)
    objs,                 \* the endpoint dicts, in the order extract_endpoints made them
    endpoints,            \* main's list `endpoints`: indexes into objs
    allowed_methods,      \* main's allowed_methods (optional list)
    filtered_endpoints,   \* request_all_endpoints: indexes into objs
    endpoints_to_request, \* request_all_endpoints: indexes into objs
    i,                    \* request_all_endpoints: position of the loop of line 246
    requests,             \* every HTTP request sent to an endpoint, in order
    probe_log,            \* per call of request_endpoint: what happened and what it returned
    html_file,            \* the HTML report on disk: "absent", "partial" or "written"
    csv_file,             \* the CSV export on disk: "absent", "partial" or "written"
    fs_log,               \* what the file system answered to each writing of a file,
                          \* with the length column that was rendered for it (for a
                          \* CSV export that failed, no column is recorded)
    interrupted_at,       \* where a KeyboardInterrupt arrived (optional pc)
    exit_code             \* the process's exit status (optional)

vars == <<pc, args, fetch_result, api_docs, objs, endpoints, allowed_methods,
          filtered_endpoints, endpoints_to_request, i, requests, probe_log,
          html_file, csv_file, fs_log, interrupted_at, exit_code>>

None == << >>
Some(x) == <<x>>

(***************************************************************************)
(* Strings.                                                                *)
(***************************************************************************)
LowerTab == <<"a","b","c","d","e","f","g","h","i","j","k","l","m",
              "n","o","p","q","r","s","t","u","v","w","x","y","z">>
UpperTab == <<"A","B","C","D","E","F","G","H","I","J","K","L","M",
              "N","O","P","Q","R","S","T","U","V","W","X","Y","Z">>

UpperChar(c) ==
    IF \E k \in 1..Len(LowerTab) : LowerTab[k] = c
    THEN UpperTab[CHOOSE k \in 1..Len(LowerTab) : LowerTab[k] = c]
    ELSE c

\* str.upper()
str_upper(s) == [k \in 1..Len(s) |-> UpperChar(s[k])]

IsSpace(c) == c \in {" ", "\t", "\n"}

RECURSIVE str_lstrip(_)
str_lstrip(s) == IF s # << >> /\ IsSpace(Head(s)) THEN str_lstrip(Tail(s)) ELSE s

RECURSIVE str_rstrip(_)
str_rstrip(s) ==
    IF s # << >> /\ IsSpace(s[Len(s)]) THEN str_rstrip(SubSeq(s, 1, Len(s) - 1)) ELSE s

\* str.strip()
str_strip(s) == str_rstrip(str_lstrip(s))

\* str.rstrip(ch) for a one-character argument
RECURSIVE str_rstrip_char(_, _)
str_rstrip_char(s, ch) ==
    IF s # << >> /\ s[Len(s)] = ch THEN str_rstrip_char(SubSeq(s, 1, Len(s) - 1), ch) ELSE s

\* str.split(sep) for a one-character separator: "".split(",") is [""]
RECURSIVE str_split(_, _)
str_split(s, sep) ==
    IF \E k \in 1..Len(s) : s[k] = sep
    THEN LET k == CHOOSE k \in 1..Len(s) : s[k] = sep /\ \A j \in 1..(k - 1) : s[j] # sep
         IN  <<SubSeq(s, 1, k - 1)>> \o str_split(SubSeq(s, k + 1, Len(s)), sep)
    ELSE <<s>>

\* str.startswith(ch) for a one-character argument
str_startswith(s, ch) == s # << >> /\ s[1] = ch

\* x in list
InList(x, list) == \E k \in 1..Len(list) : list[k] = x

\* dict.get(key, default)
Get(d, key, default) == IF key \in DOMAIN d THEN d[key] ELSE default

\* d[key] = value
SetItem(d, key, value) == (key :> value) @@ d

\* seq[:n] and seq[n:] for n >= 0
SliceTo(s, n) == SubSeq(s, 1, IF n < Len(s) THEN n ELSE Len(s))
SliceFrom(s, n) == SubSeq(s, n + 1, Len(s))

GET == <<"G","E","T">>
POST == <<"P","O","S","T">>
PUT == <<"P","U","T">>
DELETE == <<"D","E","L","E","T","E">>
PATCH == <<"P","A","T","C","H">>
HEAD == <<"H","E","A","D">>
OPTIONS == <<"O","P","T","I","O","N","S">>

\* the verb vocabulary of lines 82 and 118
HttpVerbs == <<GET, POST, PUT, DELETE, PATCH, HEAD, OPTIONS>>
valid_methods == {GET, POST, PUT, DELETE, PATCH, HEAD, OPTIONS}

(***************************************************************************)
(* parse_methods (lines 101-127).                                          *)
(***************************************************************************)
\* the pieces upper-cased but not stripped
clean_methods_not_stripped(method_string) ==
    LET pieces == str_split(method_string, ",")
    IN  [k \in 1..Len(pieces) |-> str_upper(pieces[k])]

\* line 115: one cleaned method name per comma-separated piece
clean_methods(method_string) ==
    LET pieces == str_split(method_string, ",")
    IN  [k \in 1..Len(pieces) |-> str_upper(str_strip(pieces[k]))]

IsValidMethod(method) == method \in valid_methods
IsInvalidMethod(method) == method \notin valid_methods

parse_methods(method_string) ==
    IF method_string = << >>
    THEN << >>
    ELSE LET methods == clean_methods(method_string)
             invalid_methods == SelectSeq(methods, IsInvalidMethod)
         IN  IF invalid_methods # << >>
             THEN SelectSeq(methods, IsValidMethod)
             ELSE methods

(***************************************************************************)
(* urllib.parse.urlparse, as far as extract_endpoints reads it (lines      *)
(* 76-78): the scheme is what precedes the first ':' when that is a legal  *)
(* scheme name, lower-cased; the netloc is what follows a leading "//" up  *)
(* to the next '/', '?' or '#'.                                            *)
(***************************************************************************)
LowerChar(c) ==
    IF \E k \in 1..Len(UpperTab) : UpperTab[k] = c
    THEN LowerTab[CHOOSE k \in 1..Len(UpperTab) : UpperTab[k] = c]
    ELSE c

str_lower(s) == [k \in 1..Len(s) |-> LowerChar(s[k])]

IsLetter(c) == \E k \in 1..Len(LowerTab) : c = LowerTab[k] \/ c = UpperTab[k]
IsSchemeChar(c) ==
    IsLetter(c) \/ c \in {"0","1","2","3","4","5","6","7","8","9","+","-","."}

\* the position of the first character of s that is in set, or Len(s) + 1
FirstIn(s, set) ==
    IF \E k \in 1..Len(s) : s[k] \in set
    THEN CHOOSE k \in 1..Len(s) : s[k] \in set /\ \A j \in 1..(k - 1) : s[j] \notin set
    ELSE Len(s) + 1

urlparse(url) ==
    LET colon == FirstIn(url, {":"})
        has_scheme == /\ colon > 1
                      /\ colon <= Len(url)
                      /\ IsLetter(url[1])
                      /\ \A k \in 1..(colon - 1) : IsSchemeChar(url[k])
        scheme == IF has_scheme THEN str_lower(SubSeq(url, 1, colon - 1)) ELSE << >>
        rest == IF has_scheme THEN SubSeq(url, colon + 1, Len(url)) ELSE url
        has_netloc == Len(rest) >= 2 /\ rest[1] = "/" /\ rest[2] = "/"
        after == SubSeq(rest, 3, Len(rest))
        netloc == IF has_netloc
                  THEN SubSeq(after, 1, FirstIn(after, {"/", "?", "#"}) - 1)
                  ELSE << >>
    IN  [scheme |-> scheme, netloc |-> netloc]

(***************************************************************************)
(* extract_endpoints (lines 53-98).  A document dict keeps its keys in     *)
(* declared order, so 'paths' is the sequence of its items                 *)
(* <<path, methods>> and methods the sequence of its items                 *)
(* <<method, details>>.                                                    *)
(***************************************************************************)
\* the servers entry consulted before the explicit base URL
base_url_of_servers_first(document, api_docs_url, api_base_url) ==
    LET servers == Get(document, "servers", << >>)
        parsed_url == urlparse(api_docs_url)
    IN  IF servers # << >>
        THEN str_rstrip_char(Get(servers[1], "url", << >>), "/")
        ELSE IF api_base_url # None /\ api_base_url[1] # << >>
        THEN str_rstrip_char(api_base_url[1], "/")
        ELSE parsed_url.scheme \o <<":", "/", "/">> \o parsed_url.netloc

\* lines 70-78
base_url_of(document, api_docs_url, api_base_url) ==
    LET servers == Get(document, "servers", << >>)
        parsed_url == urlparse(api_docs_url)
    IN  IF api_base_url # None /\ api_base_url[1] # << >>
        THEN str_rstrip_char(api_base_url[1], "/")
        ELSE IF servers # << >>
        THEN str_rstrip_char(Get(servers[1], "url", << >>), "/")
        ELSE parsed_url.scheme \o <<":", "/", "/">> \o parsed_url.netloc

\* the test of line 82 made on the key as written
endpoint_info_case_sensitive(path, method, details, base_url) ==
    IF InList(method, HttpVerbs)
    THEN << [path |-> path,
             full_url |-> base_url \o (IF str_startswith(path, "/")
                                       THEN path ELSE <<"/">> \o path),
             method |-> str_upper(method),
             summary |-> Get(details, "summary", << >>),
             description |-> Get(details, "description", << >>),
             operationId |-> Get(details, "operationId", << >>),
             tags |-> Get(details, "tags", << >>)] >>
    ELSE << >>

\* lines 82-96: the descriptors one (method, details) item contributes
endpoint_info(path, method, details, base_url) ==
    IF InList(str_upper(method), HttpVerbs)
    THEN LET clean_path == IF str_startswith(path, "/") THEN path ELSE <<"/">> \o path
             full_url == base_url \o clean_path
         IN  << [path |-> path,
                 full_url |-> full_url,
                 method |-> str_upper(method),
                 summary |-> Get(details, "summary", << >>),
                 description |-> Get(details, "description", << >>),
                 operationId |-> Get(details, "operationId", << >>),
                 tags |-> Get(details, "tags", << >>)] >>
    ELSE << >>

\* line 81: the inner loop over one path's methods
RECURSIVE methods_loop(_, _, _)
methods_loop(path, methods, base_url) ==
    IF methods = << >>
    THEN << >>
    ELSE endpoint_info(path, Head(methods)[1], Head(methods)[2], base_url)
             \o methods_loop(path, Tail(methods), base_url)

\* line 80: the outer loop over the paths
RECURSIVE paths_loop(_, _)
paths_loop(paths, base_url) ==
    IF paths = << >>
    THEN << >>
    ELSE methods_loop(Head(paths)[1], Head(paths)[2], base_url)
             \o paths_loop(Tail(paths), base_url)

extract_endpoints(document, api_docs_url, api_base_url) ==
    paths_loop(Get(document, "paths", << >>),
               base_url_of(document, api_docs_url, api_base_url))

(***************************************************************************)
(* Exceptions: the classes an exception is an instance of.  ConnectTimeout *)
(* derives from both ConnectionError and Timeout; KeyboardInterrupt and    *)
(* SystemExit derive from BaseException only.                              *)
(***************************************************************************)
Ancestors(exc) ==
    CASE exc = "ReadTimeout" ->
           {"ReadTimeout", "Timeout", "RequestException", "Exception", "BaseException"}
      [] exc = "ConnectTimeout" ->
           {"ConnectTimeout", "ConnectionError", "Timeout", "RequestException",
            "Exception", "BaseException"}
      [] exc = "ConnectionError" ->
           {"ConnectionError", "RequestException", "Exception", "BaseException"}
      [] exc = "TooManyRedirects" ->
           {"TooManyRedirects", "RequestException", "Exception", "BaseException"}
      [] exc = "HTTPError" ->
           {"HTTPError", "RequestException", "Exception", "BaseException"}
      [] exc = "JSONDecodeError" ->
           {"JSONDecodeError", "ValueError", "Exception", "BaseException"}
      [] exc = "ValueError" -> {"ValueError", "Exception", "BaseException"}
      [] exc = "AttributeError" -> {"AttributeError", "Exception", "BaseException"}
      [] exc = "OSError" -> {"OSError", "Exception", "BaseException"}
      [] exc = "KeyboardInterrupt" -> {"KeyboardInterrupt", "BaseException"}
      [] exc = "SystemExit" -> {"SystemExit", "BaseException"}

\* the first except clause of a try statement that catches exc, or 0
FirstHandler(handlers, exc) ==
    IF \E k \in 1..Len(handlers) : handlers[k][1] \in Ancestors(exc)
    THEN CHOOSE k \in 1..Len(handlers) :
             /\ handlers[k][1] \in Ancestors(exc)
             /\ \A j \in 1..(k - 1) : handlers[j][1] \notin Ancestors(exc)
    ELSE 0

(***************************************************************************)
(* request_endpoint (lines 161-214).  net is what the network does with    *)
(* the request, if one is sent: a response or an exception.  The result    *)
(* names the requests sent, the exception that leaves the function (if     *)
(* any) and the returned pair (status code, content length).               *)
(***************************************************************************)
\* the clauses with the general one first
request_endpoint_handlers_misordered ==
    << <<"RequestException", -3>>, <<"Timeout", -1>>,
       <<"ConnectionError", -2>>, <<"Exception", -4>> >>

\* the last clause as a bare except
request_endpoint_handlers_bare_except ==
    << <<"Timeout", -1>>, <<"ConnectionError", -2>>,
       <<"RequestException", -3>>, <<"BaseException", -4>> >>

\* lines 207-214: the except clauses, in order, with what each returns
request_endpoint_handlers ==
    << <<"Timeout", -1>>, <<"ConnectionError", -2>>,
       <<"RequestException", -3>>, <<"Exception", -4>> >>

\* lines 184-198: the methods that have a branch, with the body each sends
request_body(method) ==
    CASE method = GET -> Some("none")
      [] method = POST -> Some("json {}")
      [] method = PUT -> Some("json {}")
      [] method = PATCH -> Some("json {}")
      [] method = HEAD -> Some("none")
      [] method = OPTIONS -> Some("none")
      [] OTHER -> None

\* request_endpoint with a DELETE branch and without the guard of line 176
request_endpoint_sends_delete(endpoint, include_delete, net) ==
    LET method == str_upper(endpoint.method)
        request == [method |-> method, url |-> endpoint.full_url, body |-> "none"]
    IN  IF net.kind = "response"
        THEN [sent |-> <<request>>, raised |-> None,
              value |-> <<net.status_code, net.content_len>>]
        ELSE LET h == FirstHandler(request_endpoint_handlers, net.exc)
             IN  IF h = 0
                 THEN [sent |-> <<request>>, raised |-> Some(net.exc), value |-> <<0, 0>>]
                 ELSE [sent |-> <<request>>, raised |-> None,
                       value |-> <<request_endpoint_handlers[h][2], 0>>]

request_endpoint(endpoint, include_delete, net) ==
    LET method == str_upper(endpoint.method)
        url == endpoint.full_url
        request == [method |-> method, url |-> url, body |-> request_body(method)[1]]
    IN  IF method = DELETE /\ ~include_delete
        THEN [sent |-> << >>, raised |-> None, value |-> <<0, 0>>]
        ELSE IF request_body(method) = None
        THEN [sent |-> << >>, raised |-> None, value |-> <<0, 0>>]
        ELSE IF net.kind = "response"
        THEN [sent |-> <<request>>, raised |-> None,
              value |-> <<net.status_code, net.content_len>>]
        ELSE LET h == FirstHandler(request_endpoint_handlers, net.exc)
             IN  IF h = 0
                 THEN [sent |-> <<request>>, raised |-> Some(net.exc), value |-> <<0, 0>>]
                 ELSE [sent |-> <<request>>, raised |-> None,
                       value |-> <<request_endpoint_handlers[h][2], 0>>]

(***************************************************************************)
(* request_all_endpoints (lines 217-263), the pure parts.                  *)
(***************************************************************************)
TruthyInt(opt) == opt # None /\ opt[1] # 0
TruthySeq(opt) == opt # None /\ opt[1] # << >>

\* lines 233-237: the indexes of the dicts whose method is allowed
RECURSIVE filter_by_methods(_, _, _)
filter_by_methods(dicts, list, allowed) ==
    IF list = << >>
    THEN << >>
    ELSE (IF InList(str_upper(dicts[Head(list)].method), allowed)
          THEN <<Head(list)>> ELSE << >>)
             \o filter_by_methods(dicts, Tail(list), allowed)

select_filtered(dicts, list, allowed) ==
    IF TruthySeq(allowed) THEN filter_by_methods(dicts, list, allowed[1]) ELSE list

\* the slice of line 241 taken one too long
select_to_request_one_more(filtered, request_limit) ==
    IF TruthyInt(request_limit) THEN SliceTo(filtered, request_limit[1] + 1) ELSE filtered

\* lines 240-244
select_to_request(filtered, request_limit) ==
    IF TruthyInt(request_limit) THEN SliceTo(filtered, request_limit[1]) ELSE filtered

\* lines 251-252 and 259-260 (and 982-983): the two assignments on one dict
set_outcome(dicts, ref, status_code, content_length) ==
    [dicts EXCEPT ![ref] = SetItem(SetItem(@, "status_code", status_code),
                                   "content_length", content_length)]

\* lines 258-260: the dicts of the filtered list that were beyond the limit
RECURSIVE mark_unrequested(_, _)
mark_unrequested(dicts, list) ==
    IF list = << >>
    THEN dicts
    ELSE mark_unrequested(set_outcome(dicts, Head(list), 0, 0), Tail(list))

\* the filtered list returned in place of the whole list
returned_endpoints_filtered(list, filtered) == filtered

\* line 263: the list the function returns
returned_endpoints(list, filtered) == list

(***************************************************************************)
(* main (lines 889-1021), the pure parts.                                  *)
(***************************************************************************)
\* lines 986-997
request_limit_of(a) ==
    IF a.all THEN None ELSE IF TruthyInt(a.limit) THEN a.limit ELSE None

include_delete_of(a) == a.all

\* lines 1016-1021 and the interpreter's default: the exit status main ends
\* with when exc leaves its try block (code is the argument of sys.exit)
main_handlers == << <<"KeyboardInterrupt", 1>>, <<"Exception", 1>> >>

exit_status(exc, code) ==
    LET h == FirstHandler(main_handlers, exc)
    IN  IF h = 0 THEN code ELSE main_handlers[h][2]

\* lines 701 and 846, 734 and 861: the outcome the report shows for a dict
status_code_of(endpoint) == Get(endpoint, "status_code", 0)
content_length_of(endpoint) == Get(endpoint, "content_length", 0)

(***************************************************************************)
(* Inputs.                                                                 *)
(***************************************************************************)
MaxLimit == 2      \* -limit ranges over 0..MaxLimit
MaxTokens == 3     \* pieces of a -method string given to parse_methods
MaxKeys == 2       \* keys of one path item given to extract_endpoints

s_get == <<"g","e","t">>
s_Post == <<"P","o","s","t">>
s_delete == <<"d","e","l","e","t","e">>
s_put == <<"p","u","t">>
s_bogus == <<"b","o","g","u","s">>
s_parameters == <<"p","a","r","a","m","e","t","e","r","s">>
path_a == <<"/","a">>
path_b == <<"b">>
DocUrl == <<"H","t","t","p",":","/","/","h",":","8","0","/","v","2","/","d">>

plain_details == [responses |-> "200"]
named_details == [summary |-> <<"s">>, responses |-> "200"]

\* GET /a, DELETE /a
Doc1 == [info |-> [title |-> <<"t">>],
         paths |-> << <<path_a, << <<s_get, named_details>>,
                                    <<s_delete, plain_details>> >> >> >>]
\* DELETE /a, GET /a, POST b, PUT b, and a key that is no verb
Doc2 == [paths |-> << <<path_a, << <<s_delete, plain_details>>,
                                    <<s_parameters, plain_details>>,
                                    <<s_get, plain_details>> >> >>,
                      <<path_b, << <<s_Post, named_details>>,
                                    <<s_put, plain_details>> >> >> >>]
\* a document without paths
Doc3 == [info |-> [title |-> <<"t">>]]

Docs == {Doc1, Doc2, Doc3}

MethodOptions ==
    { None,
      Some(<< >>),
      Some(s_get),
      Some(s_bogus),
      Some(s_get \o <<",", " ">> \o s_Post \o <<" ", ",">> \o s_bogus),
      Some(s_delete \o <<",", " ">> \o s_Post) }

ArgsSet ==
    [url : {None, Some(DocUrl)},
     method : MethodOptions,
     limit : {None} \cup {Some(n) : n \in 0..MaxLimit},
     all : BOOLEAN,
     request_none : BOOLEAN]

\* what the document's server does with the GET of line 32
FetchResponses ==
    {[kind |-> "raise", exc |-> e] : e \in {"ConnectionError", "HTTPError", "KeyboardInterrupt"}}
    \cup {[kind |-> "json_object", doc |-> d] : d \in Docs}
    \cup {[kind |-> "quoted_object", doc |-> Doc1],
          [kind |-> "json_other"],
          [kind |-> "garbage"]}

\* what an endpoint's server does with a probe
NetEvents ==
    {[kind |-> "response", status_code |-> 200, content_len |-> 2048],
     [kind |-> "response", status_code |-> 404, content_len |-> 0]}
    \cup {[kind |-> "raise", exc |-> e] :
            e \in {"ReadTimeout", "ConnectTimeout", "ConnectionError",
                   "TooManyRedirects", "ValueError", "KeyboardInterrupt"}}

\* what the file system does with the writing of a file
FileResults == {"written", "open_fails", "write_fails"}

(***************************************************************************)
(* fetch_api_docs (lines 20-50): the value it returns, or the exception    *)
(* that leaves it (sys.exit raises SystemExit).  A json_other response is  *)
(* valid JSON that is no object; a quoted_object is no valid JSON until    *)
(* its outer quotes are stripped (lines 40-43); garbage is neither.        *)
(***************************************************************************)
\* a decoded JSON value that is no dict (a string, a list, a number)
NotADict == [json_type |-> "str"]
IsDict(value) == "json_type" \notin DOMAIN value

fetch_api_docs(response) ==
    CASE response.kind = "raise" ->
           IF "RequestException" \in Ancestors(response.exc)
           THEN [raised |-> Some("SystemExit"), value |-> None]
           ELSE [raised |-> Some(response.exc), value |-> None]
      [] response.kind = "json_object" -> [raised |-> None, value |-> Some(response.doc)]
      [] response.kind = "json_other" -> [raised |-> None, value |-> Some(NotADict)]
      [] response.kind = "quoted_object" -> [raised |-> None, value |-> Some(response.doc)]
      [] response.kind = "garbage" -> [raised |-> Some("SystemExit"), value |-> None]

(***************************************************************************)
(* The run of main.                                                        *)
(***************************************************************************)
Init ==
    /\ pc = "start"
    /\ args \in ArgsSet
    /\ fetch_result = None
    /\ api_docs = None
    /\ objs = << >>
    /\ endpoints = << >>
    /\ allowed_methods = None
    /\ filtered_endpoints = << >>
    /\ endpoints_to_request = << >>
    /\ i = 0
    /\ requests = << >>
    /\ probe_log = << >>
    /\ html_file = "absent"
    /\ csv_file = "absent"
    /\ fs_log = << >>
    /\ interrupted_at = None
    /\ exit_code = None

\* the process ends with this status
Exit(code) ==
    /\ pc' = "done"
    /\ exit_code' = Some(code)

\* exc leaves the try block of main (lines 1016-1021)
Raise(exc, code) ==
    /\ Exit(exit_status(exc, code))
    /\ interrupted_at' = IF exc = "KeyboardInterrupt" THEN Some(pc) ELSE interrupted_at

\* lines 950-952: no URL, the help text is shown and main returns
Help ==
    /\ pc = "start"
    /\ ~TruthySeq(args.url)
    /\ Exit(0)
    /\ UNCHANGED <<args, fetch_result, api_docs, objs, endpoints, allowed_methods,
                   filtered_endpoints, endpoints_to_request, i, requests, probe_log,
                   html_file, csv_file, fs_log, interrupted_at>>

\* line 962
FetchApiDocs ==
    /\ pc = "start"
    /\ TruthySeq(args.url)
    /\ \E response \in FetchResponses :
         LET r == fetch_api_docs(response)
         IN  /\ fetch_result' = Some(response.kind)
             /\ IF r.raised # None
                THEN /\ Raise(r.raised[1], 1)
                     /\ UNCHANGED api_docs
                ELSE /\ api_docs' = r.value
                     /\ pc' = "extract"
                     /\ UNCHANGED <<exit_code, interrupted_at>>
    /\ UNCHANGED <<args, objs, endpoints, allowed_methods, filtered_endpoints,
                   endpoints_to_request, i, requests, probe_log, html_file, csv_file, fs_log>>

\* line 965: a document that is no dict has no .get (AttributeError)
ExtractEndpoints ==
    /\ pc = "extract"
    /\ IF ~IsDict(api_docs[1])
       THEN /\ Raise("AttributeError", 1)
            /\ UNCHANGED <<objs, endpoints>>
       ELSE /\ objs' = extract_endpoints(api_docs[1], args.url[1], None)
            /\ endpoints' = [k \in 1..Len(objs') |-> k]
            /\ pc' = "methods"
            /\ UNCHANGED <<exit_code, interrupted_at>>
    /\ UNCHANGED <<args, fetch_result, api_docs, allowed_methods, filtered_endpoints,
                   endpoints_to_request, i, requests, probe_log, html_file, csv_file, fs_log>>

\* lines 970-975
ParseMethodArgument ==
    /\ pc = "methods"
    /\ IF TruthySeq(args.method)
       THEN /\ allowed_methods' = Some(parse_methods(args.method[1]))
            /\ IF allowed_methods'[1] = << >>
               THEN Raise("SystemExit", 1)
               ELSE /\ pc' = "select"
                    /\ UNCHANGED <<exit_code, interrupted_at>>
       ELSE /\ pc' = "select"
            /\ UNCHANGED <<allowed_methods, exit_code, interrupted_at>>
    /\ UNCHANGED <<args, fetch_result, api_docs, objs, endpoints, filtered_endpoints,
                   endpoints_to_request, i, requests, probe_log, html_file, csv_file, fs_log>>

\* lines 978-983: -request-none
RECURSIVE skip_all(_, _)
skip_all(dicts, list) ==
    IF list = << >>
    THEN dicts
    ELSE skip_all(set_outcome(dicts, Head(list), 0, 0), Tail(list))

SkipRequests ==
    /\ pc = "select"
    /\ args.request_none
    /\ objs' = skip_all(objs, endpoints)
    /\ pc' = "render"
    /\ UNCHANGED <<args, fetch_result, api_docs, endpoints, allowed_methods,
                   filtered_endpoints, endpoints_to_request, i, requests, probe_log,
                   html_file, csv_file, fs_log, fs_log, interrupted_at, exit_code>>

\* the call of request_all_endpoints made whether or not -request-none is given
StartRequests_ignoring_request_none ==
    /\ pc = "select"
    /\ filtered_endpoints' = select_filtered(objs, endpoints, allowed_methods)
    /\ endpoints_to_request' = select_to_request(filtered_endpoints', request_limit_of(args))
    /\ i' = 1
    /\ pc' = "probing"
    /\ UNCHANGED <<args, fetch_result, api_docs, objs, endpoints, allowed_methods,
                   requests, probe_log, html_file, csv_file, fs_log, interrupted_at, exit_code>>

\* lines 985-1000 and 230-244: the call of request_all_endpoints, up to its loop
StartRequests ==
    /\ pc = "select"
    /\ ~args.request_none
    /\ filtered_endpoints' = select_filtered(objs, endpoints, allowed_methods)
    /\ endpoints_to_request' = select_to_request(filtered_endpoints', request_limit_of(args))
    /\ i' = 1
    /\ pc' = "probing"
    /\ UNCHANGED <<args, fetch_result, api_docs, objs, endpoints, allowed_methods,
                   requests, probe_log, html_file, csv_file, fs_log, interrupted_at, exit_code>>

\* lines 246-255: one turn of the loop: the request, the two assignments,
\* the sleep.  A KeyboardInterrupt can arrive in the request or in the sleep.
Probe ==
    /\ pc = "probing"
    /\ i <= Len(endpoints_to_request)
    /\ \E net \in NetEvents, sleep_interrupted \in BOOLEAN :
         LET ref == endpoints_to_request[i]
             r == request_endpoint(objs[ref], include_delete_of(args), net)
         IN  /\ requests' = requests \o r.sent
             /\ probe_log' = Append(probe_log,
                    [ref |-> ref,
                     event |-> IF r.sent = << >> THEN "not sent"
                               ELSE IF net.kind = "raise" THEN net.exc ELSE "response",
                     raised |-> r.raised,
                     value |-> r.value,
                     sleep_interrupted |-> r.raised = None /\ sleep_interrupted])
             /\ IF r.raised # None
                THEN /\ Raise(r.raised[1], 1)
                     /\ UNCHANGED <<objs, i>>
                ELSE /\ objs' = set_outcome(objs, ref, r.value[1], r.value[2])
                     /\ IF sleep_interrupted
                        THEN /\ Raise("KeyboardInterrupt", 1)
                             /\ UNCHANGED i
                        ELSE /\ i' = i + 1
                             /\ UNCHANGED <<pc, exit_code, interrupted_at>>
    /\ UNCHANGED <<args, fetch_result, api_docs, endpoints, allowed_methods,
                   filtered_endpoints, endpoints_to_request, html_file, csv_file, fs_log>>

\* lines 257-263: the defaults for the rest of the filtered list, and the return
FinishRequests ==
    /\ pc = "probing"
    /\ i > Len(endpoints_to_request)
    /\ objs' = mark_unrequested(objs,
                   SliceFrom(filtered_endpoints, Len(endpoints_to_request)))
    /\ endpoints' = returned_endpoints(endpoints, filtered_endpoints)
    /\ pc' = "render"
    /\ UNCHANGED <<args, fetch_result, api_docs, allowed_methods, filtered_endpoints,
                   endpoints_to_request, i, requests, probe_log, html_file, csv_file, fs_log,
                   interrupted_at, exit_code>>

(***************************************************************************)
(* The length column of generate_html (lines 733-747) and of generate_csv  *)
(* (lines 860-871).                                                        *)
(***************************************************************************)
Digits == <<"0", "1", "2", "3", "4", "5", "6", "7", "8", "9">>

\* f"{n}" for an int n >= 0
RECURSIVE str_int(_)
str_int(n) ==
    IF n < 10
    THEN <<Digits[n + 1]>>
    ELSE str_int(n \div 10) \o <<Digits[(n % 10) + 1]>>

\* f"{n / unit:.1f}" for an int n >= 0 and unit a power of two: the float
\* n / unit is exact, and the format rounds it to the nearest tenth, a tie to
\* the even tenth
format_1f(n, unit) ==
    LET q == (10 * n) \div unit
        r == (10 * n) % unit
        tenths == IF 2 * r > unit \/ (2 * r = unit /\ q % 2 = 1) THEN q + 1 ELSE q
    IN  str_int(tenths \div 10) \o <<".">> \o str_int(tenths % 10)

\* lines 738-747 with 1024 itself shown as an integer
html_length_display_inclusive(endpoint) ==
    LET content_length == Get(endpoint, "content_length", 0)
        status_code == Get(endpoint, "status_code", 0)
    IN  IF status_code = 0 \/ status_code < 0 THEN <<"/">>
        ELSE IF content_length = 0 THEN <<"0">>
        ELSE IF content_length <= 1024 THEN str_int(content_length)
        ELSE IF content_length < 1024 * 1024
        THEN format_1f(content_length, 1024) \o <<"K">>
        ELSE format_1f(content_length, 1024 * 1024) \o <<"M">>

\* lines 733-747
html_length_display(endpoint) ==
    LET content_length == Get(endpoint, "content_length", 0)
        status_code == Get(endpoint, "status_code", 0)
    IN  IF status_code = 0 \/ status_code < 0 THEN <<"/">>
        ELSE IF content_length = 0 THEN <<"0">>
        ELSE IF content_length < 1024 THEN str_int(content_length)
        ELSE IF content_length < 1024 * 1024
        THEN format_1f(content_length, 1024) \o <<"K">>
        ELSE format_1f(content_length, 1024 * 1024) \o <<"M">>

\* lines 846 and 860-871
csv_length_display(endpoint) ==
    LET status_code == Get(endpoint, "status_code", 0)
        content_length == Get(endpoint, "content_length", 0)
    IN  IF status_code = 0 \/ status_code < 0 THEN <<"/">>
        ELSE IF content_length = 0 THEN <<"0">>
        ELSE IF content_length < 1024 THEN str_int(content_length)
        ELSE IF content_length < 1024 * 1024
        THEN format_1f(content_length, 1024) \o <<"K">>
        ELSE format_1f(content_length, 1024 * 1024) \o <<"M">>

\* lines 699 and 748-758: the length cells of the table, one per endpoint
html_length_cells(dicts, list) ==
    [k \in 1..Len(list) |-> html_length_display(dicts[list[k]])]

\* lines 844 and 873-880: the length fields of the rows handed to the writer
csv_length_fields(dicts, list) ==
    [k \in 1..Len(list) |-> csv_length_display(dicts[list[k]])]

\* lines 1003-1007: an OSError of open or write leaves the try block
WriteHtml ==
    /\ pc = "render"
    /\ \E result \in FileResults :
         /\ fs_log' = Append(fs_log, [file |-> "html", result |-> result,
                                      length_display |-> html_length_cells(objs, endpoints)])
         /\ html_file' = CASE result = "written" -> "written"
                           [] result = "open_fails" -> "absent"
                           [] result = "write_fails" -> "partial"
         /\ IF result = "written"
            THEN /\ pc' = "csv"
                 /\ UNCHANGED <<exit_code, interrupted_at>>
            ELSE Raise("OSError", 1)
    /\ UNCHANGED <<args, fetch_result, api_docs, objs, endpoints, allowed_methods,
                   filtered_endpoints, endpoints_to_request, i, requests, probe_log,
                   csv_file>>

\* lines 1010-1014 and 838-886: generate_csv catches its own exceptions and
\* returns None; main then returns
\* generate_csv without its except clause
csv_handlers_none == << >>

\* lines 884-886
csv_handlers == << <<"Exception", 0>> >>

WriteCsv ==
    /\ pc = "csv"
    /\ \E result \in FileResults :
         /\ fs_log' = Append(fs_log, [file |-> "csv", result |-> result,
                                      length_display |-> IF result = "written"
                                                         THEN csv_length_fields(objs, endpoints)
                                                         ELSE << >>])
         /\ csv_file' = CASE result = "written" -> "written"
                          [] result = "open_fails" -> "absent"
                          [] result = "write_fails" -> "partial"
         /\ IF result = "written" \/ FirstHandler(csv_handlers, "OSError") # 0
            THEN /\ Exit(0)
                 /\ UNCHANGED interrupted_at
            ELSE Raise("OSError", 1)
    /\ UNCHANGED <<args, fetch_result, api_docs, objs, endpoints, allowed_methods,
                   filtered_endpoints, endpoints_to_request, i, requests, probe_log,
                   html_file>>

Next ==
    \/ Help
    \/ FetchApiDocs
    \/ ExtractEndpoints
    \/ ParseMethodArgument
    \/ SkipRequests
    \/ StartRequests
    \/ Probe
    \/ FinishRequests
    \/ WriteHtml
    \/ WriteCsv

Spec == Init /\ [][Next]_vars

(***************************************************************************)
(* Properties of the run of main.                                          *)
(***************************************************************************)
\* the aggregated sequence has been handed to the report renderer
Handed ==
    \/ pc \in {"render", "csv"}
    \/ pc = "done" /\ TruthySeq(args.url) /\ exit_code = Some(0)

\* the dict at position k of the sequence handed to the renderer
Row(k) == objs[endpoints[k]]

Rows == 1..Len(endpoints)

NonSkipped == {k \in Rows : status_code_of(Row(k)) # 0}

\* C1: while the destructive-method flag is false, no request is ever sent for
\* a DELETE endpoint, whatever the allow-list and the limit are, and in the
\* sequence handed to the renderer every DELETE endpoint shows the outcome
\* Skipped: status code 0, length 0.
C1_DeleteNeverProbed ==
    ~include_delete_of(args) =>
        /\ \A k \in 1..Len(requests) : requests[k].method # DELETE
        /\ Handed =>
             \A k \in Rows :
                 Row(k).method = DELETE =>
                     /\ status_code_of(Row(k)) = 0
                     /\ content_length_of(Row(k)) = 0

\* a run with an allow-list and a limit in which a DELETE endpoint was among
\* the endpoints to request and another endpoint was sent a request
C1_Witness ==
    /\ Handed
    /\ ~include_delete_of(args)
    /\ TruthySeq(allowed_methods)
    /\ TruthyInt(args.limit)
    /\ \E k \in 1..Len(endpoints_to_request) : objs[endpoints_to_request[k]].method = DELETE
    /\ requests # << >>

\* C2, as claimed: when a limit N > 0 is given, then whatever the method
\* filter and -all are, at most N endpoints end with an outcome other than
\* Skipped, all of them endpoints the method filter kept.
C2_Original ==
    (Handed /\ TruthyInt(args.limit)) =>
        /\ Cardinality(NonSkipped) <= args.limit[1]
        /\ \A k \in NonSkipped :
              TruthySeq(args.method) =>
                  InList(Row(k).method, parse_methods(args.method[1]))

\* C2, amended: the same when -all is not given.
C2_LimitWithoutAll ==
    (Handed /\ TruthyInt(args.limit) /\ ~args.all) =>
        /\ Cardinality(NonSkipped) <= args.limit[1]
        /\ \A k \in NonSkipped :
              TruthySeq(args.method) =>
                  InList(Row(k).method, parse_methods(args.method[1]))

\* a run with limit 1 and without -all in which the limit cut the filtered
\* list and the one endpoint within the limit has a real outcome
C2_Witness ==
    /\ Handed
    /\ ~args.all
    /\ args.limit = Some(1)
    /\ Len(filtered_endpoints) > 1
    /\ Cardinality(NonSkipped) = 1

\* C3, as claimed: every dict of the sequence handed to the renderer has been
\* assigned a status code and a length, the dicts of the endpoints the
\* allow-list excluded too.
C3_EveryEndpointAssigned ==
    Handed =>
        \A k \in Rows : {"status_code", "content_length"} \subseteq DOMAIN Row(k)

DescriptorKeys ==
    {"path", "full_url", "method", "summary", "description", "operationId", "tags"}

Descriptor(endpoint) == [key \in DescriptorKeys |-> endpoint[key]]

\* C4: the sequence request_all_endpoints returns is the canonical sequence
\* of extract_endpoints: the same dicts, each once, in the same order, with
\* their descriptors as extracted.
C4_SameSequence ==
    (Handed /\ ~args.request_none) =>
        LET canonical == extract_endpoints(api_docs[1], args.url[1], None)
        IN  /\ endpoints = [k \in 1..Len(canonical) |-> k]
            /\ Len(objs) = Len(canonical)
            /\ \A k \in 1..Len(canonical) : Descriptor(objs[k]) = canonical[k]

\* a run in which the allow-list dropped an endpoint from the filtered list,
\* the limit cut the filtered list, and a request was sent
C4_Witness ==
    /\ Handed
    /\ ~args.request_none
    /\ Len(filtered_endpoints) < Len(endpoints)
    /\ Len(endpoints_to_request) < Len(filtered_endpoints)
    /\ requests # << >>

\* the document could not be fetched or decoded into a document
FetchFailed ==
    /\ fetch_result # None
    /\ fetch_result[1] \in {"raise", "garbage", "json_other"}
    /\ interrupted_at # Some("start")

\* a method filter was given on the command line and none of its tokens is
\* a valid method
NoValidMethod ==
    /\ TruthySeq(args.url)
    /\ args.method # None
    /\ \A k \in 1..Len(clean_methods(args.method[1])) :
           clean_methods(args.method[1])[k] \notin valid_methods

\* C5, as claimed: when the document cannot be fetched or decoded, or the
\* given method filter has no valid method, no endpoint is ever probed,
\* neither file is written, and the process ends with a non-zero status.
C5_FatalBeforeProbing ==
    (FetchFailed \/ NoValidMethod) =>
        /\ requests = << >>
        /\ html_file = "absent"
        /\ csv_file = "absent"
        /\ pc = "done" => exit_code # Some(0)

FailureEvents ==
    {"ReadTimeout", "ConnectTimeout", "ConnectionError", "TooManyRedirects", "ValueError"}

\* the status a failed probe is to be recorded with
Classified(event) ==
    CASE event \in {"ReadTimeout", "ConnectTimeout"} -> -1
      [] event = "ConnectionError" -> -2
      [] event = "TooManyRedirects" -> -3
      [] event = "ValueError" -> -4

\* C6: a failed probe is recorded on its endpoint as -1 (timeout), -2
\* (connection failure), -3 (other request failure) or -4 (anything else),
\* with length 0; no exception leaves request_endpoint for it; and a run
\* that was not interrupted has called request_endpoint for every endpoint
\* of the to-request sequence, in order, whatever failed before.
C6_ProbeFailureRecovered ==
    /\ \A k \in 1..Len(probe_log) :
          probe_log[k].event \in FailureEvents =>
              /\ probe_log[k].raised = None
              /\ probe_log[k].value = <<Classified(probe_log[k].event), 0>>
              /\ objs[probe_log[k].ref].status_code = Classified(probe_log[k].event)
              /\ objs[probe_log[k].ref].content_length = 0
    /\ (pc \in {"render", "csv", "done"} /\ i >= 1 /\ interrupted_at = None) =>
          /\ Len(probe_log) = Len(endpoints_to_request)
          /\ \A k \in 1..Len(probe_log) : probe_log[k].ref = endpoints_to_request[k]

\* a run in which the first probe failed to connect and the next endpoint
\* was probed and answered
C6_Witness ==
    /\ Handed
    /\ Len(probe_log) >= 2
    /\ probe_log[1].event = "ConnectionError"
    /\ probe_log[2].event = "response"
    /\ Len(requests) >= 2

HtmlFailed ==
    \E k \in 1..Len(fs_log) : fs_log[k].file = "html" /\ fs_log[k].result # "written"

CsvFailed ==
    \E k \in 1..Len(fs_log) : fs_log[k].file = "csv" /\ fs_log[k].result # "written"

\* C7, as claimed (user interrupts aside): a run ends with a non-zero status
\* only when the document could not be fetched or decoded or the method
\* filter had no valid method; no other failure does that, a failure to write
\* the HTML report or the CSV export included.
C7_Original ==
    (pc = "done" /\ exit_code # Some(0) /\ interrupted_at = None) =>
        (FetchFailed \/ NoValidMethod)

\* C7, amended: a run ends with a non-zero status only when the document
\* could not be fetched or decoded, the method filter had no valid method,
\* the HTML report could not be written, or the user interrupted; a failed
\* probe and a failure to write the CSV export do not do that.
C7_NonZeroExits ==
    /\ (pc = "done" /\ exit_code # Some(0)) =>
          (FetchFailed \/ NoValidMethod \/ HtmlFailed \/ interrupted_at # None)
    /\ (pc = "done" /\ CsvFailed) => exit_code = Some(0)

\* a run that probed, had a probe fail, and ended non-zero on the HTML write
C7_Witness ==
    /\ pc = "done"
    /\ exit_code = Some(1)
    /\ HtmlFailed
    /\ \E k \in 1..Len(probe_log) : probe_log[k].event \in FailureEvents

\* the user's interrupt arrived in the k-th turn of the probing loop
InterruptedInTurn(k) ==
    probe_log[k].event = "KeyboardInterrupt" \/ probe_log[k].sleep_interrupted

\* C8: when the user interrupts while endpoints are probed, that turn of the
\* loop is the last (no later endpoint is probed), neither file is written
\* (the outcomes collected so far are not reported), and the process has
\* ended with a non-zero status.
C8_InterruptAborts ==
    \A k \in 1..Len(probe_log) :
        InterruptedInTurn(k) =>
            /\ k = Len(probe_log)
            /\ pc = "done"
            /\ exit_code # None /\ exit_code # Some(0)
            /\ html_file = "absent"
            /\ csv_file = "absent"
            /\ fs_log = << >>

\* a run interrupted in its second request, after a first request was
\* answered and recorded and with an endpoint still to probe
C8_Witness ==
    /\ Len(probe_log) < Len(endpoints_to_request)
    /\ probe_log # << >>
    /\ probe_log[Len(probe_log)].event = "KeyboardInterrupt"
    /\ Len(requests) = 2
    /\ \E k \in 1..Len(probe_log) :
          probe_log[k].event = "response" /\ objs[probe_log[k].ref].status_code = 200
    /\ pc = "done"

(***************************************************************************)
(* parse_methods on its own: every method string of up to MaxTokens pieces *)
(* from TokenPool.                                                         *)
(***************************************************************************)
TokenPool ==
    { s_get,
      <<" ">> \o s_Post \o <<" ">>,
      s_put,
      s_bogus,
      << >>,
      <<"\t">> \o DELETE }

TokenSeqs == UNION {[1..n -> TokenPool] : n \in 1..MaxTokens}

RECURSIVE JoinTokens(_)
JoinTokens(tokens) ==
    IF Len(tokens) = 1
    THEN tokens[1]
    ELSE tokens[1] \o <<",">> \o JoinTokens(Tail(tokens))

MethodStrings == {JoinTokens(tokens) : tokens \in TokenSeqs}

NoArgs == [url |-> None, method |-> None, limit |-> None, all |-> FALSE,
           request_none |-> FALSE]

Idle ==
    /\ fetch_result = None
    /\ api_docs = None
    /\ objs = << >>
    /\ endpoints = << >>
    /\ allowed_methods = None
    /\ filtered_endpoints = << >>
    /\ endpoints_to_request = << >>
    /\ i = 0
    /\ requests = << >>
    /\ probe_log = << >>
    /\ html_file = "absent"
    /\ csv_file = "absent"
    /\ fs_log = << >>
    /\ interrupted_at = None
    /\ exit_code = None

InitParse ==
    /\ pc = "call parse_methods"
    /\ args \in {[NoArgs EXCEPT !.method = Some(method_string)] :
                    method_string \in MethodStrings}
    /\ Idle

CallParseMethods ==
    /\ pc = "call parse_methods"
    /\ allowed_methods' = Some(parse_methods(args.method[1]))
    /\ pc' = "parse_methods returned"
    /\ UNCHANGED <<args, fetch_result, api_docs, objs, endpoints, filtered_endpoints,
                   endpoints_to_request, i, requests, probe_log, html_file, csv_file,
                   fs_log, interrupted_at, exit_code>>

NextParse == CallParseMethods

SpecParse == InitParse /\ [][NextParse]_vars

\* a token as the claim normalises it
Normalised(token) == str_upper(str_strip(token))

RECURSIVE ValidSubsequence(_)
ValidSubsequence(tokens) ==
    IF tokens = << >>
    THEN << >>
    ELSE (IF Normalised(Head(tokens)) \in valid_methods
          THEN <<Normalised(Head(tokens))>> ELSE << >>)
             \o ValidSubsequence(Tail(tokens))

\* C9: for a method string made of tokens joined by commas, parse_methods
\* returns the tokens that are one of the 7 verbs once stripped and
\* upper-cased, so normalised, in input order and with duplicates kept;
\* invalid tokens are dropped without the valid ones being lost, and the
\* result is empty exactly when no token is valid.
C9_ParseMethods ==
    pc = "parse_methods returned" =>
        \A tokens \in TokenSeqs :
            JoinTokens(tokens) = args.method[1] =>
                /\ allowed_methods[1] = ValidSubsequence(tokens)
                /\ allowed_methods[1] = << >> <=>
                      \A k \in 1..Len(tokens) : Normalised(tokens[k]) \notin valid_methods

\* "get, Post ,put" gave GET, POST, PUT
C9_Witness ==
    /\ pc = "parse_methods returned"
    /\ args.method[1] = s_get \o <<",", " ">> \o s_Post \o <<" ", ",">> \o s_put
    /\ allowed_methods = Some(<<GET, POST, PUT>>)

(***************************************************************************)
(* extract_endpoints on its own: every document of up to two paths whose   *)
(* items have up to MaxKeys distinct keys from KeyPool.                    *)
(***************************************************************************)
KeyPool == {s_get, GET, s_Post, DELETE, s_parameters}

details_of(key) == IF key = s_get THEN named_details ELSE plain_details

KeySeqs ==
    {keys \in UNION {[1..n -> KeyPool] : n \in 0..MaxKeys} :
        \A j, k \in 1..Len(keys) : j # k => keys[j] # keys[k]}

PathItems == {[k \in 1..Len(keys) |-> <<keys[k], details_of(keys[k])>>] : keys \in KeySeqs}

PathSeqs == {<< >>, <<path_a>>, <<path_b>>, <<path_a, path_b>>, <<path_b, path_a>>}

ExtractDocs ==
    UNION {{[paths |-> [k \in 1..Len(ps) |-> <<ps[k], items[k]>>]] :
               items \in [1..Len(ps) -> PathItems]} : ps \in PathSeqs}

InitExtract ==
    /\ pc = "call extract_endpoints"
    /\ args = [url |-> Some(DocUrl), api_base_url |-> None]
    /\ fetch_result = None
    /\ api_docs \in {Some(document) : document \in ExtractDocs}
    /\ objs = << >>
    /\ endpoints = << >>
    /\ allowed_methods = None
    /\ filtered_endpoints = << >>
    /\ endpoints_to_request = << >>
    /\ i = 0
    /\ requests = << >>
    /\ probe_log = << >>
    /\ html_file = "absent"
    /\ csv_file = "absent"
    /\ fs_log = << >>
    /\ interrupted_at = None
    /\ exit_code = None

CallExtractEndpoints ==
    /\ pc = "call extract_endpoints"
    /\ objs' = extract_endpoints(api_docs[1], args.url[1], args.api_base_url)
    /\ pc' = "extract_endpoints returned"
    /\ UNCHANGED <<args, fetch_result, api_docs, endpoints, allowed_methods,
                   filtered_endpoints, endpoints_to_request, i, requests, probe_log,
                   html_file, csv_file, fs_log, interrupted_at, exit_code>>

NextExtract == CallExtractEndpoints

SpecExtract == InitExtract /\ [][NextExtract]_vars

\* the (path, method key) pairs of a document, in declared order
RECURSIVE PairsOfItem(_, _)
PairsOfItem(path, items) ==
    IF items = << >>
    THEN << >>
    ELSE << <<path, Head(items)[1]>> >> \o PairsOfItem(path, Tail(items))

RECURSIVE PairsOf(_)
PairsOf(paths) ==
    IF paths = << >>
    THEN << >>
    ELSE PairsOfItem(Head(paths)[1], Head(paths)[2]) \o PairsOf(Tail(paths))

HasVerbKey(pair) == str_upper(pair[2]) \in valid_methods

\* C10: extract_endpoints emits one descriptor for each (path, method key)
\* pair of the document whose key, upper-cased, is one of the 7 verbs, in
\* the document's order; a key that is no verb gives no descriptor; and the
\* method of every descriptor is that key upper-cased, one of the 7 verbs.
C10_ExtractEndpoints ==
    pc = "extract_endpoints returned" =>
        LET verb_pairs == SelectSeq(PairsOf(Get(api_docs[1], "paths", << >>)), HasVerbKey)
        IN  /\ Len(objs) = Len(verb_pairs)
            /\ \A k \in 1..Len(objs) :
                  /\ objs[k].path = verb_pairs[k][1]
                  /\ objs[k].method = str_upper(verb_pairs[k][2])
                  /\ objs[k].method \in valid_methods

\* a document of two paths with a key that is no verb and with lower-case,
\* mixed-case and upper-case verb keys
C10_Witness ==
    /\ pc = "extract_endpoints returned"
    /\ api_docs[1].paths =
          << <<path_b, << <<s_parameters, plain_details>>, <<s_get, named_details>> >> >>,
             <<path_a, << <<s_Post, plain_details>>, <<DELETE, plain_details>> >> >> >>
    /\ Len(objs) = 3
    /\ objs[1].method = GET /\ objs[1].path = path_b
    /\ objs[3].method = DELETE /\ objs[3].path = path_a

(***************************************************************************)
(* extract_endpoints and its base URL: documents with and without a        *)
(* servers list, document URLs, explicit base URLs.                        *)
(***************************************************************************)
ExampleUrl == <<"h","t","t","p","s",":","/","/","a","p","i",".","e","x","a","m","p","l","e",".","c","o","m","/","v","2","/","a","p","i","-","d","o","c","s">>
ExampleBase == <<"h","t","t","p","s",":","/","/","a","p","i",".","e","x","a","m","p","l","e",".","c","o","m">>
s_users == <<"u","s","e","r","s">>
server_absolute == <<"h","t","t","p","s",":","/","/","s",".","i","o","/","v","1","/">>
server_relative == <<"/","v","1">>
server_other == <<"h","t","t","p",":","/","/","x">>
override_absolute == <<"h","t","t","p",":","/","/","o","/","/">>
override_relative == <<"o","/">>

ServerLists ==
    { << >>,
      <<[url |-> server_absolute]>>,
      <<[url |-> << >>]>>,
      <<[description |-> <<"d">>]>>,
      <<[url |-> server_relative]>>,
      <<[url |-> server_absolute], [url |-> server_other]>> }

BasePaths ==
    { << <<path_a, << <<s_get, named_details>> >> >>,
         <<s_users, << <<s_Post, plain_details>> >> >> >>,
      << <<s_users, << <<s_get, plain_details>>, <<s_parameters, plain_details>> >> >> >> }

BaseDocs ==
    {[paths |-> paths] : paths \in BasePaths}
    \cup {[paths |-> paths, servers |-> servers] :
             paths \in BasePaths, servers \in ServerLists}

BaseOverrides == {None, Some(<< >>), Some(override_absolute), Some(override_relative)}

InitBaseUrl ==
    /\ pc = "call extract_endpoints"
    /\ args \in [url : {Some(ExampleUrl), Some(DocUrl)}, api_base_url : BaseOverrides]
    /\ api_docs \in {Some(document) : document \in BaseDocs}
    /\ fetch_result = None
    /\ objs = << >>
    /\ endpoints = << >>
    /\ allowed_methods = None
    /\ filtered_endpoints = << >>
    /\ endpoints_to_request = << >>
    /\ i = 0
    /\ requests = << >>
    /\ probe_log = << >>
    /\ html_file = "absent"
    /\ csv_file = "absent"
    /\ fs_log = << >>
    /\ interrupted_at = None
    /\ exit_code = None

NextBaseUrl == CallExtractEndpoints

SpecBaseUrl == InitBaseUrl /\ [][NextBaseUrl]_vars

\* the base URL the call resolved, and the paths of the emitted descriptors
ResolvedBase == base_url_of(api_docs[1], args.url[1], args.api_base_url)

\* C11, as claimed: the full_url of every descriptor is an absolute URL (it
\* has a scheme and an authority) and base and path are joined by exactly one
\* slash, also when the first servers entry has an empty, missing or
\* relative url.
C11_AbsoluteUrl ==
    pc = "extract_endpoints returned" =>
        \A k \in 1..Len(objs) :
            LET full_url == objs[k].full_url
                join == Len(ResolvedBase) + 1
            IN  /\ urlparse(full_url).scheme # << >>
                /\ urlparse(full_url).netloc # << >>
                /\ Len(full_url) >= join
                /\ full_url[join] = "/"
                /\ join > 1 => full_url[join - 1] # "/"
                /\ Len(full_url) > join => full_url[join + 1] # "/"

\* s without its trailing slashes
Trimmed(s) ==
    LET keep == {n \in 0..Len(s) : n = 0 \/ s[n] # "/"}
    IN  SubSeq(s, 1, CHOOSE n \in keep : \A m \in keep : m <= n)

\* scheme and authority of the document URLs of InitBaseUrl
Authority(url) ==
    IF url = ExampleUrl THEN ExampleBase ELSE <<"h","t","t","p",":","/","/","h",":","8","0">>

ExpectedBase ==
    LET servers == Get(api_docs[1], "servers", << >>)
    IN  IF args.api_base_url # None /\ args.api_base_url[1] # << >>
        THEN Trimmed(args.api_base_url[1])
        ELSE IF Len(servers) > 0
        THEN (IF "url" \in DOMAIN servers[1] THEN Trimmed(servers[1].url) ELSE << >>)
        ELSE Authority(args.url[1])

\* C12: the base URL is the first that applies of (1) the explicit override
\* (given and not empty), trailing slashes trimmed, (2) the url of the first
\* servers entry (the empty string when it has none), trailing slashes
\* trimmed, (3) scheme and authority of the document URL; full_url is that
\* base followed by the path, with a '/' put before a path that lacks one,
\* and the stored path is the document's path unmodified.
C12_BaseUrlResolution ==
    pc = "extract_endpoints returned" =>
        LET verb_pairs == SelectSeq(PairsOf(api_docs[1].paths), HasVerbKey)
        IN  /\ Len(objs) = Len(verb_pairs)
            /\ \A k \in 1..Len(objs) :
                  LET path == verb_pairs[k][1]
                  IN  /\ objs[k].path = path
                      /\ objs[k].full_url =
                            ExpectedBase \o (IF path[1] = "/" THEN path ELSE <<"/">> \o path)

\* the document at https://api.example.com/v2/api-docs without servers and
\* without override: path users resolved to https://api.example.com/users
C12_Witness ==
    /\ pc = "extract_endpoints returned"
    /\ args.url = Some(ExampleUrl)
    /\ args.api_base_url = None
    /\ "servers" \notin DOMAIN api_docs[1]
    /\ \E k \in 1..Len(objs) :
          /\ objs[k].path = s_users
          /\ objs[k].full_url = <<"h","t","t","p","s",":","/","/","a","p","i",".","e","x","a","m","p","l","e",".","c","o","m","/","u","s","e","r","s">>

(***************************************************************************)
(* -request-none (lines 977-983).                                          *)
(***************************************************************************)
\* C13: with -request-none no request is ever sent to any endpoint, and every
\* dict of the canonical sequence handed to the renderer has been assigned
\* status code 0 and length 0, whatever the limit, -all and a valid method
\* filter are.
C13_RequestNone ==
    args.request_none =>
        /\ requests = << >>
        /\ probe_log = << >>
        /\ Handed =>
             /\ Len(endpoints) = Len(extract_endpoints(api_docs[1], args.url[1], None))
             /\ \A k \in Rows :
                   /\ {"status_code", "content_length"} \subseteq DOMAIN Row(k)
                   /\ Row(k).status_code = 0
                   /\ Row(k).content_length = 0

\* a run with -request-none, a limit, -all and a valid method filter that
\* handed several endpoints to the renderer, one of them not in the filter
C13_Witness ==
    /\ Handed
    /\ args.request_none
    /\ args.all
    /\ TruthyInt(args.limit)
    /\ TruthySeq(allowed_methods)
    /\ Len(endpoints) >= 2
    /\ \E k \in Rows :
          /\ ~InList(Row(k).method, allowed_methods[1])
          /\ "status_code" \in DOMAIN Row(k)
    /\ requests = << >>

(***************************************************************************)
(* The length column: generate_html and generate_csv applied to one        *)
(* endpoint with each outcome of a sample.                                 *)
(***************************************************************************)
LengthSamples ==
    {0, 1, 9, 10, 999, 1023, 1024, 1025, 1075, 1076, 1280, 1792, 2048, 10240,
     1048575, 1048576, 1048577, 1572864, 1966080, 104857600}

ResponseCodes == {200, 404, 500}

\* the outcomes request_all_endpoints and main leave on a dict: none, the
\* default, a failure, or the status and the body length of a response
LabelOutcomes ==
    {<< >>, <<0, 0>>, <<-1, 0>>, <<-2, 0>>, <<-3, 0>>, <<-4, 0>>}
    \cup {<<code, length>> : code \in ResponseCodes, length \in LengthSamples}

LabelDict(outcome) ==
    LET endpoint == endpoint_info(path_a, s_get, named_details, << >>)[1]
    IN  IF outcome = << >>
        THEN endpoint
        ELSE SetItem(SetItem(endpoint, "status_code", outcome[1]),
                     "content_length", outcome[2])

InitLabel ==
    /\ pc = "render"
    /\ args = NoArgs
    /\ fetch_result = None
    /\ api_docs = None
    /\ objs \in {<<LabelDict(outcome)>> : outcome \in LabelOutcomes}
    /\ endpoints = <<1>>
    /\ allowed_methods = None
    /\ filtered_endpoints = << >>
    /\ endpoints_to_request = << >>
    /\ i = 0
    /\ requests = << >>
    /\ probe_log = << >>
    /\ html_file = "absent"
    /\ csv_file = "absent"
    /\ fs_log = << >>
    /\ interrupted_at = None
    /\ exit_code = None

NextLabel ==
    \/ WriteHtml
    \/ WriteCsv

SpecLabel == InitLabel /\ [][NextLabel]_vars

IsDigit(c) == \E d \in 0..9 : Digits[d + 1] = c

DigitValue(c) == CHOOSE d \in 0..9 : Digits[d + 1] = c

\* label is the decimal numeral of a natural number, without a leading zero
IsNumeral(label) ==
    /\ label # << >>
    /\ \A k \in 1..Len(label) : IsDigit(label[k])
    /\ Len(label) > 1 => label[1] # "0"

RECURSIVE NumeralValue(_)
NumeralValue(label) ==
    IF label = << >>
    THEN 0
    ELSE 10 * NumeralValue(SubSeq(label, 1, Len(label) - 1)) + DigitValue(label[Len(label)])

\* label is a numeral, a point, one digit and the suffix, and the number it
\* writes is a tenth of the unit nearest to length
IsOneDecimal(label, suffix, length, unit) ==
    /\ Len(label) >= 4
    /\ label[Len(label)] = suffix
    /\ IsDigit(label[Len(label) - 1])
    /\ label[Len(label) - 2] = "."
    /\ IsNumeral(SubSeq(label, 1, Len(label) - 3))
    /\ LET tenths == 10 * NumeralValue(SubSeq(label, 1, Len(label) - 3))
                      + DigitValue(label[Len(label) - 1])
            distance == IF 10 * length >= unit * tenths
                        THEN 10 * length - unit * tenths
                        ELSE unit * tenths - 10 * length
       IN  2 * distance <= unit

LengthLabelOk(endpoint, label) ==
    LET status_code == status_code_of(endpoint)
        length == content_length_of(endpoint)
    IN  /\ status_code <= 0 => label = <<"/">>
        /\ (status_code > 0 /\ length < 1024) =>
              IsNumeral(label) /\ NumeralValue(label) = length
        /\ (status_code > 0 /\ length >= 1024 /\ length < 1048576) =>
              IsOneDecimal(label, "K", length, 1024)
        /\ (status_code > 0 /\ length >= 1048576) =>
              IsOneDecimal(label, "M", length, 1048576)
        /\ (status_code > 0 /\ length = 1023) => label = <<"1", "0", "2", "3">>
        /\ (status_code > 0 /\ length = 1024) => label = <<"1", ".", "0", "K">>
        /\ (status_code > 0 /\ length = 1048575) =>
              label = <<"1", "0", "2", "4", ".", "0", "K">>
        /\ (status_code > 0 /\ length = 1048576) => label = <<"1", ".", "0", "M">>

\* C14: the length label of a row is "/" when the status code is 0 or
\* negative; otherwise the bare integer for a length under 1024, kilobytes
\* with one decimal and the suffix K for a length under 1048576, megabytes
\* with one decimal and the suffix M from there on; 1023 gives "1023", 1024
\* gives "1.0K", 1048575 gives "1024.0K", 1048576 gives "1.0M"; and the HTML
\* table and the CSV export show the same label for the same outcome.
C14_LengthLabel ==
    /\ \A n \in 1..Len(fs_log) :
          \A k \in 1..Len(fs_log[n].length_display) :
              LengthLabelOk(Row(k), fs_log[n].length_display[k])
    /\ \A n \in 1..Len(fs_log) :
          fs_log[n].result = "written" =>
              Len(fs_log[n].length_display) = Len(endpoints)
    /\ \A n, m \in 1..Len(fs_log) :
          (fs_log[n].result = "written" /\ fs_log[m].result = "written") =>
              fs_log[n].length_display = fs_log[m].length_display

\* both files written for an endpoint that answered 200 with 1048575 bytes,
\* both showing 1024.0K
C14_Witness ==
    /\ pc = "done"
    /\ html_file = "written"
    /\ csv_file = "written"
    /\ Len(fs_log) = 2
    /\ status_code_of(Row(1)) = 200
    /\ content_length_of(Row(1)) = 1048575
    /\ fs_log[1].length_display = << <<"1", "0", "2", "4", ".", "0", "K">> >>
    /\ fs_log[2].length_display = << <<"1", "0", "2", "4", ".", "0", "K">> >>

(***************************************************************************)
(* The selection of request_all_endpoints and the requests of its loop.    *)
(***************************************************************************)
\* the dicts a request was sent for
SentRefs ==
    {probe_log[k].ref : k \in {j \in 1..Len(probe_log) : probe_log[j].event # "not sent"}}

\* C15, as claimed: the allow-list is applied first, then the limit, then
\* the DELETE exclusion: in a run that probed and was not interrupted, the
\* endpoints that were sent a request are exactly those among the first N of
\* the allow-list-filtered sequence (all of it without a limit) whose method
\* is not DELETE, or of any method when the destructive flag is set.
C15_SelectorOrder ==
    (Handed /\ ~args.request_none) =>
        LET filtered == select_filtered(objs, endpoints, allowed_methods)
            limit == request_limit_of(args)
            N == IF TruthyInt(limit) THEN limit[1] ELSE Len(filtered)
        IN  SentRefs =
              {filtered[k] : k \in {j \in 1..Len(filtered) :
                                       /\ j <= N
                                       /\ \/ objs[filtered[j]].method # DELETE
                                          \/ include_delete_of(args)}}

\* the endpoints selected for probing, in their order
RECURSIVE SelectedOf(_)
SelectedOf(list) ==
    IF list = << >>
    THEN << >>
    ELSE (IF objs[Head(list)].method # DELETE \/ include_delete_of(args)
          THEN <<Head(list)>>
          ELSE << >>) \o SelectedOf(Tail(list))

\* C16, as claimed: the requests sent so far are, one each and in order,
\* those of the first endpoints selected for probing, each with its
\* endpoint's method and full URL, whether or not a request failed; a run
\* that was not interrupted has sent one for every selected endpoint; and a
\* request is sent only when the outcome of every earlier endpoint of the
\* to-request sequence is recorded.
C16_OneRequestEach ==
    LET selected == SelectedOf(endpoints_to_request)
    IN  /\ Len(requests) <= Len(selected)
        /\ \A k \in 1..Len(requests) :
              /\ requests[k].method = objs[selected[k]].method
              /\ requests[k].url = objs[selected[k]].full_url
        /\ (Handed /\ ~args.request_none) => Len(requests) = Len(selected)
        /\ \A k \in 1..Len(probe_log) :
              \A j \in 1..(k - 1) :
                  probe_log[j].raised = None =>
                      "status_code" \in DOMAIN objs[probe_log[j].ref]

====
